---- MODULE Spec2Model ----
(***************************************************************************)
(* Model of agent-eval.py: the SWE-bench evaluation script of CURA.        *)
(*                                                                         *)
(* Python values are tagged records, so that a str, an int and None can be *)
(* told apart: PyStr(cs) is a str whose text is the sequence cs of         *)
(* symbols.  The symbol ":" is the separator character; every other symbol *)
(* stands for a non-empty piece of text without ":" in it.                 *)
(***************************************************************************)
EXTENDS Integers, Sequences, FiniteSets, TLC

\* ------------------------------------------------------------------ bounds
\* Most runs the experiment source yields (eval_result).
MaxRuns == 2
\* Most platform runs the publisher hands to swe_bench_evaluator.
MaxPlatformRuns == 2

\* --------------------------------------------------------- Python values
PyNone == [type |-> "NoneType"]
PyInt(n) == [type |-> "int", n |-> n]
PyStr(cs) == [type |-> "str", chars |-> cs]
EmptyStr == PyStr(<<>>)
\* 'version:<x>'
VersionStr(x) == PyStr(<<"version", ":", x>>)

\* str(run.id): run ids are numbered here, their text is the number's text.
StrOfId(id) == ToString(id)

\* --------------------------------------------------------------- constants
ModelName == "gpt-4o-mini"
InstanceIds == {"i1", "i2"}
\* The run id a platform run of another experiment carries.
ForeignRunId == MaxRuns + 1

VARIABLES
    pc,           \* position in the script
    error,        \* the exception that ended the script, "none" while it runs
    eval_result,  \* the runs the experiment source produced
    run_id,       \* evaluate_predictions' run_id argument
    dataset,      \* list of instance dicts
    predictions,  \* dict instance_id -> prediction
    reports,      \* instance_id -> "absent" | "resolved" | "unresolved" (report.json)
    consulted,    \* instance ids whose report.json the aggregator looked at
    store,        \* contents of feedback.json, NoStore before it is written
    log,          \* the effects on the process and its collaborators, in order
    evalCalls,    \* calls of swe_bench_evaluator so far
    lastRun,      \* id of the platform run of the last such call
    lastResult,   \* what that call (or a call of make_test_spec) returned or raised
    outcomes,     \* what the patch-generation collaborator did, per call of predict
    MAP_REPO_VERSION_TO_SPECS  \* the version table of make_test_spec

vars == <<pc, error, eval_result, run_id, dataset, predictions, reports,
          consulted, store, log, evalCalls, lastRun, lastResult, outcomes,
          MAP_REPO_VERSION_TO_SPECS>>

NoStore == [written |-> FALSE]
NoResult == [kind |-> "none"]
NoPredictions == [i \in {} |-> PyNone]

\* ------------------------------------------------------- version handling
\* s.split(":"): the pieces of cs between separators.
RECURSIVE split(_)
split(cs) ==
    IF \A k \in 1..Len(cs) : cs[k] # ":"
    THEN <<cs>>
    ELSE LET k == CHOOSE j \in 1..Len(cs) :
                      cs[j] = ":" /\ \A h \in 1..(j - 1) : cs[h] # ":"
         IN <<SubSeq(cs, 1, k - 1)>> \o split(SubSeq(cs, k + 1, Len(cs)))

\* d['version'].split(":")[1]
normalize_version(v) ==
    IF v.type # "str"
    THEN [raised |-> TRUE, exc |-> "AttributeError"]
    ELSE LET parts == split(v.chars)
         IN IF Len(parts) < 2
            THEN [raised |-> TRUE, exc |-> "IndexError"]
            ELSE [raised |-> FALSE, value |-> PyStr(parts[2])]

\* ------------------------------------------------------------- resolver
\* The table of lines 159-166: per repo, the versions that have a spec.
DeclaredMap ==
    [r \in {"repo1"} |-> {VersionStr("1.0"), VersionStr("2.0"),
                          VersionStr("3.0"), VersionStr("3.1")}]

\* The object MAP_REPO_VERSION_TO_SPECS[repo][version].
SpecAt(repo, version) == [repo |-> repo, version |-> version]

\* lines 173-174 without the test that 3.1 is missing: 3.1 always becomes 3.0.
fallback_version_always(map, repo, version) ==
    IF version = VersionStr("3.1") THEN VersionStr("3.0") ELSE version

\* lines 173-174
fallback_version(map, repo, version) ==
    IF version = VersionStr("3.1") /\ VersionStr("3.1") \notin map[repo]
    THEN VersionStr("3.0")
    ELSE version

\* lines 151-179; the KeyError's list of available versions is kept as a set.
make_test_spec(map, instance) ==
    LET repo == instance.repo
        version == instance.version
    IN IF repo \notin DOMAIN map
       THEN [kind |-> "KeyError", what |-> "repo", repo |-> repo]
       ELSE LET v == fallback_version(map, repo, version)
            IN IF v \notin map[repo]
               THEN [kind |-> "KeyError", what |-> "version", repo |-> repo,
                     version |-> v, available |-> map[repo]]
               ELSE [kind |-> "spec", spec |-> SpecAt(repo, v)]

\* ------------------------------------------------------------ prediction
\* cura.utils.timeout: when the time is up the wrapped call ends with an exception.
timeout_expired == [raised |-> TRUE, exc |-> "TimeoutError"]

\* lines 29-32: do_prediction_plan under the timeout, for one thing the
\* collaborator may do.
get_patch_with_timeout(o) ==
    CASE o.kind = "return" -> [raised |-> FALSE, value |-> o.value]
      [] o.kind = "raise" -> [raised |-> TRUE, exc |-> "Exception"]
      [] o.kind = "timeout" -> timeout_expired

\* lines 33-41
predict(inputs, o) ==
    LET got == get_patch_with_timeout(o)
        patch == IF got.raised THEN EmptyStr ELSE got.value
    IN [instance_id |-> inputs.instance_id,
        model_patch |-> patch,
        model_name_or_path |-> ModelName]

\* ----------------------------------------------------- collecting the runs
\* The run predict's output makes: lines 37-41 and the platform's run record.
RunOf(id, iid, patch, repo, version) ==
    [id |-> id,
     inputs |-> [instance_id |-> iid, repo |-> repo, version |-> version],
     outputs |-> [instance_id |-> iid, model_patch |-> patch,
                  model_name_or_path |-> ModelName]]

\* predictions after the loop of lines 70-72 over rs: a later run of the same
\* instance_id replaces the earlier one.
RECURSIVE collect_predictions(_)
collect_predictions(rs) ==
    IF rs = <<>>
    THEN NoPredictions
    ELSE LET prev == collect_predictions(SubSeq(rs, 1, Len(rs) - 1))
             res == rs[Len(rs)]
             iid == res.outputs.instance_id
             entry == [instance_id |-> res.outputs.instance_id,
                       model_patch |-> res.outputs.model_patch,
                       model_name_or_path |-> res.outputs.model_name_or_path,
                       run_id |-> StrOfId(res.id)]
         IN [i \in (DOMAIN prev) \cup {iid} |->
                IF i = iid THEN entry ELSE prev[i]]

collect_dataset(rs) == [k \in 1..Len(rs) |-> rs[k].inputs]

\* ------------------------------------------------------------ aggregator
Score(key, score) == [key |-> key, score |-> score]

\* line 107 with the None case left out: only "" counts as no patch.
is_empty_patch_only_str(patch) == patch = EmptyStr

\* prediction.get("model_patch", None) in ["", None]
is_empty_patch(patch) == patch \in {EmptyStr, PyNone}

\* The record lines 104-133 build for one prediction, given its report.json.
feedback_for_instance(prediction, report) ==
    IF is_empty_patch(prediction.model_patch)
    THEN <<Score("non-empty-patch", 0), Score("completed-patch", 0),
           Score("resolved-patch", 0)>>
    ELSE <<Score("non-empty-patch", 1)>> \o
         (IF report # "absent"
          THEN <<Score("completed-patch", 1)>> \o
               (IF report = "resolved"
                THEN <<Score("resolved-patch", 1)>>
                ELSE <<Score("resolved-patch", 0)>>)
          ELSE <<Score("completed-patch", 0), Score("resolved-patch", 0)>>)

\* feedback_for_all_instances after the loop of lines 103-133 over ds.
RECURSIVE feedback_for_all_instances(_, _, _)
feedback_for_all_instances(preds, ds, reps) ==
    IF ds = <<>>
    THEN [k \in {} |-> <<>>]
    ELSE LET prev == feedback_for_all_instances(preds, SubSeq(ds, 1, Len(ds) - 1), reps)
             instance_id == ds[Len(ds)].instance_id
             prediction == preds[instance_id]
             rec == feedback_for_instance(prediction, reps[prediction.instance_id])
         IN [k \in (DOMAIN prev) \cup {prediction.run_id} |->
                IF k = prediction.run_id THEN rec ELSE prev[k]]

\* The instances whose report.json line 121 looks for.
reports_consulted(preds, ds) ==
    {ds[k].instance_id : k \in {j \in 1..Len(ds) :
        ~is_empty_patch(preds[ds[j].instance_id].model_patch)}}

\* ------------------------------------------------------------ the script
Patches == {EmptyStr, PyNone, PyStr(<<"diff">>)}
RepoVersions == {<<"repo1", VersionStr("3.0")>>, <<"repoX", VersionStr("3.0")>>,
                 <<"repo1", PyStr(<<"3.0">>)>>}
RunKinds == InstanceIds \X Patches \X RepoVersions
RunIdArgs == {EmptyStr, PyStr(<<"test">>)}
ReportStates == {"absent", "resolved", "unresolved"}

\* The lists eval_result may be: run k carries id k.
EvalResults ==
    UNION {{[k \in 1..n |-> RunOf(k, f[k][1], f[k][2], f[k][3][1], f[k][3][2])] :
              f \in [1..n -> RunKinds]} : n \in 0..MaxRuns}

Init ==
    /\ pc = "collect"
    /\ error = "none"
    /\ eval_result \in EvalResults
    /\ run_id \in RunIdArgs
    /\ dataset = <<>>
    /\ predictions = NoPredictions
    /\ reports = [i \in InstanceIds |-> "absent"]
    /\ consulted = {}
    /\ store = NoStore
    /\ log = <<>>
    /\ evalCalls = 0
    /\ lastRun = 0
    /\ lastResult = NoResult
    /\ outcomes = <<>>
    /\ MAP_REPO_VERSION_TO_SPECS = DeclaredMap

Abort(exc) == pc' = "aborted" /\ error' = exc

\* lines 68-72
Collect ==
    /\ pc = "collect"
    /\ predictions' = collect_predictions(eval_result)
    /\ dataset' = collect_dataset(eval_result)
    /\ pc' = "normalize"
    /\ UNCHANGED <<error, eval_result, run_id, reports, consulted, store, log,
                   evalCalls, lastRun, lastResult, outcomes,
                   MAP_REPO_VERSION_TO_SPECS>>

\* lines 73-74: the loop stops at the first version it cannot split.
Normalize ==
    /\ pc = "normalize"
    /\ LET bad == {k \in 1..Len(dataset) : normalize_version(dataset[k].version).raised}
       IN IF bad = {}
          THEN /\ dataset' = [k \in 1..Len(dataset) |->
                     [dataset[k] EXCEPT !.version = normalize_version(@).value]]
               /\ pc' = "evaluate"
               /\ error' = error
          ELSE LET first == CHOOSE k \in bad : \A j \in bad : k <= j
               IN /\ dataset' = [k \in 1..Len(dataset) |->
                        IF k < first
                        THEN [dataset[k] EXCEPT !.version = normalize_version(@).value]
                        ELSE dataset[k]]
                  /\ Abort(normalize_version(dataset[first].version).exc)
    /\ UNCHANGED <<eval_result, run_id, predictions, reports, consulted, store, log,
                   evalCalls, lastRun, lastResult, outcomes,
                   MAP_REPO_VERSION_TO_SPECS>>

\* lines 188-197, with the assert moved below the calls it guards.
EvaluatePredictionsLateAssert ==
    /\ pc = "evaluate"
    /\ IF dataset = <<>>
       THEN Abort("ValueError") /\ log' = log
       ELSE IF Len(run_id.chars) = 0
            THEN Abort("AssertionError") /\ log' = log \o <<"setrlimit", "list_images">>
            ELSE /\ log' = log \o <<"setrlimit", "list_images">>
                 /\ pc' = "build"
                 /\ error' = error
    /\ UNCHANGED <<eval_result, run_id, dataset, predictions, reports, consulted,
                   store, evalCalls, lastRun, lastResult, outcomes,
                   MAP_REPO_VERSION_TO_SPECS>>

\* lines 188-197: the two checks, the file-descriptor limit, the image snapshot.
EvaluatePredictions ==
    /\ pc = "evaluate"
    /\ IF dataset = <<>>
       THEN Abort("ValueError") /\ log' = log
       ELSE IF ~(Len(run_id.chars) > 0)
            THEN Abort("AssertionError") /\ log' = log
            ELSE /\ log' = log \o <<"setrlimit", "list_images">>
                 /\ pc' = "build"
                 /\ error' = error
    /\ UNCHANGED <<eval_result, run_id, dataset, predictions, reports, consulted,
                   store, evalCalls, lastRun, lastResult, outcomes,
                   MAP_REPO_VERSION_TO_SPECS>>

\* line 201: the harness builds the images, or raises.
BuildEnvImages ==
    /\ pc = "build"
    /\ log' = log \o <<"build_env_images">>
    /\ \/ pc' = "run" /\ error' = error
       \/ Abort("BuildError")
    /\ UNCHANGED <<eval_result, run_id, dataset, predictions, reports, consulted,
                   store, evalCalls, lastRun, lastResult, outcomes,
                   MAP_REPO_VERSION_TO_SPECS>>

\* line 202: the harness runs the batch and leaves a report.json for some of the
\* instances, or raises.
RunInstances ==
    /\ pc = "run"
    /\ log' = log \o <<"run_instances">>
    /\ \E reps \in [InstanceIds -> ReportStates] :
          /\ \A i \in InstanceIds \ DOMAIN predictions : reps[i] = "absent"
          /\ reports' = reps
    /\ \/ pc' = "clean" /\ error' = error
       \/ Abort("RunError")
    /\ UNCHANGED <<eval_result, run_id, dataset, predictions, consulted,
                   store, evalCalls, lastRun, lastResult, outcomes,
                   MAP_REPO_VERSION_TO_SPECS>>

\* line 205
CleanImages ==
    /\ pc = "clean"
    /\ log' = log \o <<"clean_images">>
    /\ pc' = "convert"
    /\ UNCHANGED <<error, eval_result, run_id, dataset, predictions, reports,
                   consulted, store, evalCalls, lastRun, lastResult, outcomes,
                   MAP_REPO_VERSION_TO_SPECS>>

\* lines 101-137, with the file written inside the loop, once per instance.
ConvertRunsWritePerInstance ==
    /\ pc = "convert"
    /\ consulted' = reports_consulted(predictions, dataset)
    /\ store' = [written |-> TRUE,
                 data |-> feedback_for_all_instances(predictions, dataset, reports)]
    /\ log' = log \o [k \in 1..Len(dataset) |-> "write_store"]
    /\ pc' = "publish"
    /\ UNCHANGED <<error, eval_result, run_id, dataset, predictions, reports,
                   evalCalls, lastRun, lastResult, outcomes,
                   MAP_REPO_VERSION_TO_SPECS>>

\* lines 101-137 (called at line 208): the records, then feedback.json.
ConvertRuns ==
    /\ pc = "convert"
    /\ consulted' = reports_consulted(predictions, dataset)
    /\ store' = [written |-> TRUE,
                 data |-> feedback_for_all_instances(predictions, dataset, reports)]
    /\ log' = log \o <<"write_store">>
    /\ pc' = "publish"
    /\ UNCHANGED <<error, eval_result, run_id, dataset, predictions, reports,
                   evalCalls, lastRun, lastResult, outcomes,
                   MAP_REPO_VERSION_TO_SPECS>>

\* langsmith_eval[str(run.id)] of line 221
lookup(langsmith_eval, key) ==
    IF key \in DOMAIN langsmith_eval
    THEN [kind |-> "results", results |-> langsmith_eval[key]]
    ELSE [kind |-> "KeyError"]

\* lines 215-221, called by the platform for one run of the experiment of
\* line 223; the platform goes on to its next run whatever the call did.
SweBenchEvaluator ==
    /\ pc = "publish"
    /\ evalCalls < MaxPlatformRuns
    /\ \E r \in (1..MaxRuns) \cup {ForeignRunId} :
          /\ lastRun' = r
          /\ lastResult' = lookup(store.data, StrOfId(r))
    /\ log' = log \o <<"read_store">>
    /\ evalCalls' = evalCalls + 1
    /\ UNCHANGED <<pc, error, eval_result, run_id, dataset, predictions, reports,
                   consulted, store, outcomes, MAP_REPO_VERSION_TO_SPECS>>

\* line 223 returns: the platform has no further run.
PublishDone ==
    /\ pc = "publish"
    /\ pc' = "done"
    /\ UNCHANGED <<error, eval_result, run_id, dataset, predictions, reports,
                   consulted, store, log, evalCalls, lastRun, lastResult, outcomes,
                   MAP_REPO_VERSION_TO_SPECS>>

Next ==
    \/ Collect
    \/ Normalize
    \/ EvaluatePredictions
    \/ BuildEnvImages
    \/ RunInstances
    \/ CleanImages
    \/ ConvertRuns
    \/ SweBenchEvaluator
    \/ PublishDone

Spec == Init /\ [][Next]_vars

\* --------------------------------------------- predict, one call per example
\* What do_prediction_plan may do in one call: return a patch, return
\* something that is no patch, raise, or run out of time.
Outcomes ==
    {[kind |-> "return", value |-> v] :
        v \in {PyStr(<<"diff">>), EmptyStr, PyNone, PyInt(0)}}
    \cup {[kind |-> "raise"], [kind |-> "timeout"]}

\* The examples of line 43.
Examples ==
    UNION {[1..n -> {[instance_id |-> i, repo |-> "repo1", version |-> VersionStr("3.0")] :
                        i \in InstanceIds}] : n \in 0..MaxRuns}

InitPredict ==
    /\ pc = "predict"
    /\ error = "none"
    /\ eval_result = <<>>
    /\ run_id = PyStr(<<"test">>)
    /\ dataset \in Examples
    /\ predictions = NoPredictions
    /\ reports = [i \in InstanceIds |-> "absent"]
    /\ consulted = {}
    /\ store = NoStore
    /\ log = <<>>
    /\ evalCalls = 0
    /\ lastRun = 0
    /\ lastResult = NoResult
    /\ outcomes = <<>>
    /\ MAP_REPO_VERSION_TO_SPECS = DeclaredMap

\* lines 56-60: evaluate calls predict (lines 28-41) on the next example, one
\* at a time, and records the run.
Predict ==
    /\ pc = "predict"
    /\ Len(eval_result) < Len(dataset)
    /\ \E o \in Outcomes :
          LET k == Len(eval_result) + 1
              out == predict(dataset[k], o)
          IN /\ outcomes' = Append(outcomes, o)
             /\ log' = log \o <<<<"do_prediction_plan", k>>>>
             /\ eval_result' = Append(eval_result,
                    [id |-> k, inputs |-> dataset[k], outputs |-> out])
    /\ UNCHANGED <<pc, error, run_id, dataset, predictions, reports, consulted,
                   store, evalCalls, lastRun, lastResult, MAP_REPO_VERSION_TO_SPECS>>

\* line 60: evaluate returns once every example has its run.
PredictDone ==
    /\ pc = "predict"
    /\ Len(eval_result) = Len(dataset)
    /\ pc' = "collect"
    /\ UNCHANGED <<error, eval_result, run_id, dataset, predictions, reports,
                   consulted, store, log, evalCalls, lastRun, lastResult, outcomes,
                   MAP_REPO_VERSION_TO_SPECS>>

NextPredict == Predict \/ PredictDone

SpecPredict == InitPredict /\ [][NextPredict]_vars

\* ------------------------------------- the version loop, on any raw version
\* Longest raw version text, in symbols.
MaxLen == 3
Symbols == {":", "version", "3.1"}
RawStrings == UNION {[1..n -> Symbols] : n \in 0..MaxLen}
RawVersions == {PyStr(cs) : cs \in RawStrings} \cup {PyNone, PyInt(3)}

InitNorm ==
    /\ pc = "collect"
    /\ error = "none"
    /\ \E v \in RawVersions, n \in 1..2 :
          eval_result = [k \in 1..n |->
              IF k = n
              THEN RunOf(k, "i1", EmptyStr, "repo1", v)
              ELSE RunOf(k, "i2", EmptyStr, "repo1", VersionStr("3.0"))]
    /\ run_id = PyStr(<<"test">>)
    /\ dataset = <<>>
    /\ predictions = NoPredictions
    /\ reports = [i \in InstanceIds |-> "absent"]
    /\ consulted = {}
    /\ store = NoStore
    /\ log = <<>>
    /\ evalCalls = 0
    /\ lastRun = 0
    /\ lastResult = NoResult
    /\ outcomes = <<>>
    /\ MAP_REPO_VERSION_TO_SPECS = DeclaredMap

NextNorm == Collect \/ Normalize

SpecNorm == InitNorm /\ [][NextNorm]_vars

\* ------------------------------------------- make_test_spec, on any table
KnownVersions == {VersionStr("1.0"), VersionStr("2.0"), VersionStr("3.0"),
                  VersionStr("3.1")}
AskedVersions == KnownVersions \cup {VersionStr("4.0"), PyStr(<<"3.1">>), PyNone}
Tables == [{"repo1"} -> SUBSET KnownVersions]

InitResolve ==
    /\ pc = "resolve"
    /\ error = "none"
    /\ eval_result = <<>>
    /\ run_id = PyStr(<<"test">>)
    /\ \E r \in {"repo1", "repoX"}, v \in AskedVersions :
          dataset = <<[instance_id |-> "i1", repo |-> r, version |-> v]>>
    /\ predictions = NoPredictions
    /\ reports = [i \in InstanceIds |-> "absent"]
    /\ consulted = {}
    /\ store = NoStore
    /\ log = <<>>
    /\ evalCalls = 0
    /\ lastRun = 0
    /\ lastResult = NoResult
    /\ outcomes = <<>>
    /\ MAP_REPO_VERSION_TO_SPECS \in Tables

\* lines 151-179, called on the instance
MakeTestSpec ==
    /\ pc = "resolve"
    /\ lastResult' = make_test_spec(MAP_REPO_VERSION_TO_SPECS, dataset[1])
    /\ pc' = "resolved"
    /\ UNCHANGED <<error, eval_result, run_id, dataset, predictions, reports,
                   consulted, store, log, evalCalls, lastRun, outcomes,
                   MAP_REPO_VERSION_TO_SPECS>>

NextResolve == MakeTestSpec

SpecResolve == InitResolve /\ [][NextResolve]_vars

\* ================================================================ claims
Count(seq, x) == Cardinality({k \in 1..Len(seq) : seq[k] = x})
Positions(seq, x) == {k \in 1..Len(seq) : seq[k] = x}
Aggregated == pc \in {"publish", "done"}
RecordOf(scores) ==
    <<Score("non-empty-patch", scores[1]), Score("completed-patch", scores[2]),
      Score("resolved-patch", scores[3])>>
NoPatch(patch) == patch = EmptyStr \/ patch = PyNone

\* C1: once the aggregator has run, the record stored under each instance's
\* prediction's run_id is [0,0,0] if the patch is empty or missing (and then the
\* instance's report was not looked at, whatever it holds), [1,0,0] if there is a
\* patch and no report, [1,1,0] if the report says not resolved, [1,1,1] if it
\* says resolved.
C1_ThreeTierRecord ==
    Aggregated =>
        \A k \in 1..Len(dataset) :
            LET p == predictions[dataset[k].instance_id]
                rep == reports[p.instance_id]
                want == IF NoPatch(p.model_patch) THEN <<0, 0, 0>>
                        ELSE IF rep = "absent" THEN <<1, 0, 0>>
                        ELSE IF rep = "unresolved" THEN <<1, 1, 0>>
                        ELSE <<1, 1, 1>>
            IN /\ p.run_id \in DOMAIN store.data
               /\ store.data[p.run_id] = RecordOf(want)
               /\ NoPatch(p.model_patch) => p.instance_id \notin consulted

\* C1 witness: a missing patch whose report says resolved scored [0,0,0], beside
\* a patch whose report says resolved scored [1,1,1].
C1_Witness ==
    /\ Aggregated
    /\ \E k, j \in 1..Len(dataset) :
          LET p == predictions[dataset[k].instance_id]
              q == predictions[dataset[j].instance_id]
          IN /\ p.model_patch = PyNone
             /\ reports[p.instance_id] = "resolved"
             /\ store.data[p.run_id] = RecordOf(<<0, 0, 0>>)
             /\ ~NoPatch(q.model_patch)
             /\ reports[q.instance_id] = "resolved"
             /\ store.data[q.run_id] = RecordOf(<<1, 1, 1>>)

\* C2: swe_bench_evaluator does not raise; for a run id without an entry in the
\* store it returns an empty result list, and for one with an entry that entry.
C2_AbsentRunYieldsEmpty ==
    evalCalls > 0 =>
        /\ lastResult.kind = "results"
        /\ IF StrOfId(lastRun) \in DOMAIN store.data
           THEN lastResult.results = store.data[StrOfId(lastRun)]
           ELSE lastResult.results = <<>>

\* What the collaborator did counts as a failure of the generation.
Failed(o) == o.kind \in {"raise", "timeout"} \/ (o.kind = "return" /\ o.value.type # "str")

\* C3: predict does not raise; its result names the instance and the model; the
\* patch is "" whenever the collaborator raised, timed out or returned something
\* malformed; and the collaborator is called at most once per call of predict.
C3_PredictEmptyOnEveryFailure ==
    /\ error = "none"
    /\ \A k \in 1..Len(eval_result) :
          LET out == eval_result[k].outputs
          IN /\ out.instance_id = dataset[k].instance_id
             /\ out.model_name_or_path = ModelName
             /\ Failed(outcomes[k]) => out.model_patch = EmptyStr
             /\ Count(log, <<"do_prediction_plan", k>>) <= 1

\* C4: make_test_spec returns the spec of a version the repo's table has; for
\* version 3.1 missing from a table that has 3.0 it returns the spec of 3.0; for
\* any other missing version it raises the unknown-version error listing exactly
\* the table's versions; for a repo without a table the unknown-repo error.
C4_ResolverPolicy ==
    pc = "resolved" =>
        LET repo == dataset[1].repo
            version == dataset[1].version
            map == MAP_REPO_VERSION_TO_SPECS
        IN IF repo \notin DOMAIN map
           THEN lastResult.kind = "KeyError" /\ lastResult.what = "repo"
           ELSE IF version \in map[repo]
           THEN lastResult = [kind |-> "spec", spec |-> SpecAt(repo, version)]
           ELSE IF version = VersionStr("3.1") /\ VersionStr("3.0") \in map[repo]
           THEN lastResult = [kind |-> "spec", spec |-> SpecAt(repo, VersionStr("3.0"))]
           ELSE /\ lastResult.kind = "KeyError"
                /\ lastResult.what = "version"
                /\ lastResult.available = map[repo]

\* C4 witness: 3.1 asked of a table with 3.0 and without 3.1, answered with the
\* spec of 3.0.
C4_Witness ==
    /\ pc = "resolved"
    /\ dataset[1].repo = "repo1"
    /\ dataset[1].version = VersionStr("3.1")
    /\ MAP_REPO_VERSION_TO_SPECS["repo1"] =
           {VersionStr("1.0"), VersionStr("2.0"), VersionStr("3.0")}
    /\ lastResult = [kind |-> "spec", spec |-> SpecAt("repo1", VersionStr("3.0"))]

\* str(v)
py_str(v) ==
    CASE v.type = "str" -> v.chars
      [] v.type = "int" -> <<ToString(v.n)>>
      [] v.type = "NoneType" -> <<"None">>

\* The text after the first ":" of cs, all of cs when it has none.
AfterFirstColon(cs) ==
    IF \A k \in 1..Len(cs) : cs[k] # ":"
    THEN cs
    ELSE LET k == CHOOSE j \in 1..Len(cs) :
                      cs[j] = ":" /\ \A h \in 1..(j - 1) : cs[h] # ":"
         IN SubSeq(cs, k + 1, Len(cs))

\* C5: the version loop never raises, and leaves each instance with the text
\* after the first ":" of its raw version, or with str(raw version) unchanged
\* when that has no ":".
C5_NormalizeTotal ==
    pc \in {"evaluate", "aborted"} =>
        /\ pc = "evaluate"
        /\ \A k \in 1..Len(dataset) :
              dataset[k].version = PyStr(AfterFirstColon(py_str(eval_result[k].inputs.version)))

\* evaluate_predictions has been called.
EvaluateCalled ==
    \/ pc \in {"build", "run", "clean", "convert", "publish", "done"}
    \/ pc = "aborted" /\ error \in {"ValueError", "AssertionError", "BuildError", "RunError"}

\* C6: evaluate_predictions called with an empty instance list or an empty run
\* id fails, without having raised the file-descriptor limit, listed, built or
\* removed images, run instances, or written the feedback store.
C6_RejectsBeforeAnyEffect ==
    (EvaluateCalled /\ (dataset = <<>> \/ run_id = EmptyStr)) =>
        /\ pc = "aborted"
        /\ error \in {"ValueError", "AssertionError"}
        /\ log = <<>>
        /\ store = NoStore

\* C6 witness: a call with instances and an empty run id, failed.
C6_Witness ==
    /\ EvaluateCalled
    /\ dataset # <<>>
    /\ run_id = EmptyStr
    /\ error = "AssertionError"

\* C7: while some instance's (repo, version) does not resolve to a test spec,
\* the file-descriptor limit is not raised and no image is listed, built, run or
\* removed.
C7_ResolvedBeforeContainerWork ==
    (\E k \in 1..Len(dataset) :
        make_test_spec(MAP_REPO_VERSION_TO_SPECS, eval_result[k].inputs).kind = "KeyError")
    => log = <<>>

\* C8: when evaluate_predictions has ended, in whatever way, and had called
\* build_env_images, it has called clean_images.
C8_CleanupOnEveryExit ==
    (pc \in {"aborted", "publish", "done"} /\ Count(log, "build_env_images") > 0)
    => Count(log, "clean_images") > 0

\* The shared part of C9: one write at most, one once the aggregator is through,
\* after run_instances; every read after the write.
C9_WriteOnceThenReads ==
    /\ Count(log, "write_store") <= 1
    /\ Aggregated => Count(log, "write_store") = 1
    /\ \A w \in Positions(log, "write_store") :
          \E b \in Positions(log, "run_instances") : b < w
    /\ \A r \in Positions(log, "read_store") :
          \E w \in Positions(log, "write_store") : w < r

C10_StoreKeysAreRunIds ==
    Aggregated =>
        DOMAIN store.data = {StrOfId(eval_result[k].id) : k \in 1..Len(eval_result)}

====
